---- MODULE Spec2Model ----
(***************************************************************************)
(* A model of spritesheet.py: the segmentation of a transparency mask into *)
(* bounding boxes (find_sprite_boxes / flood_fill), the ordering of the    *)
(* boxes (sort_boxes), the cropping (extract_frames) and the packing of    *)
(* the frames into a grid sheet (build_spritesheet), as run by             *)
(* extract_sprites.                                                        *)
(*                                                                         *)
(* A pixel is <<x, y>>; the mask and the visited grid are the sets of the  *)
(* pixels whose entry is True.  A box is <<minx, miny, maxx, maxy>>.       *)
(***************************************************************************)
EXTENDS Integers, Sequences, FiniteSets

\* ---------------------------------------------------------------- bounds

\* The image is Width x Height pixels (mask.shape == (Height, Width)).
Width == 3
Height == 2

\* build_spritesheet alone is given at most MaxFrames frames.
MaxFrames == 5

\* sort_boxes alone is given at most MaxBoxes boxes.
MaxBoxes == 3

\* ------------------------------------------------------ program constants

\* def find_sprite_boxes(mask, min_area=50)
min_area_default == 50

\* ------------------------------------------------------------ input sets

\* The values of min_area the model runs find_sprite_boxes with: the default
\* (above every box area of a Width x Height image) and thresholds such an
\* image can meet.
MinAreaChoices == {1, 2, 4, min_area_default}

\* The frame widths and heights build_spritesheet alone is given.
FrameWidths == {1, 2, 10}
FrameHeights == {2, 10}

\* The box corners sort_boxes alone is given.
BoxXs == {0, 1, 2}
BoxYs == {0, 1, 2}

Pixels == (0 .. Width - 1) \X (0 .. Height - 1)

VARIABLES
    pc,            \* where the run is
    mask,          \* the pixels with alpha > 0
    min_area,      \* find_sprite_boxes' threshold
    visited,       \* find_sprite_boxes' visited grid
    sx, sy,        \* find_sprite_boxes' loop variables x, y
    stack,         \* flood_fill's stack, top at the end
    minx, maxx, miny, maxy,   \* flood_fill's running extremes (inclusive)
    marks,         \* how often visited[y, x] = True was executed per pixel
    fill,          \* the pixels the running flood_fill has marked
    fills,         \* the pixel sets of the flood_fill calls that returned
    boxes,         \* find_sprite_boxes' list, in discovery order
    sorted_boxes,  \* what sort_boxes returned
    alt_boxes,     \* a second argument for sort_boxes (sort_boxes alone)
    alt_sorted,    \* what sort_boxes returned for it
    frames,        \* the frames, each [width, height]
    sheet,         \* build_spritesheet's sheet: [w, h], or NoSheet
    pastes,        \* the sheet.paste calls so far
    i,             \* build_spritesheet's loop index
    out,           \* what was printed
    err,           \* the exception that ended the run, or "none"
    saved          \* whether sheet.save(output_file) ran

vars == << pc, mask, min_area, visited, sx, sy, stack, minx, maxx, miny, maxy,
           marks, fill, fills, boxes, sorted_boxes, alt_boxes, alt_sorted,
           frames, sheet, pastes, i, out, err, saved >>

segVars == << visited, sx, sy, stack, minx, maxx, miny, maxy, marks, fill, fills >>
packVars == << sheet, pastes, i >>

NoSheet == [w |-> -1, h |-> -1]

Min(a, b) == IF a < b THEN a ELSE b
Max(a, b) == IF a > b THEN a ELSE b

\* ----------------------------------------------------------- flood_fill

\* if x < 0 or y < 0 or x >= w or y >= h: continue
OutOfImage(x, y) == x < 0 \/ y < 0 \/ x >= Width \/ y >= Height

\* Skip with the test of visited[y, x] left out.
SkipWithoutVisited(x, y) == OutOfImage(x, y) \/ <<x, y>> \notin mask

\* The two "continue" tests of flood_fill's loop.
Skip(x, y) == OutOfImage(x, y) \/ <<x, y>> \in visited \/ <<x, y>> \notin mask

\* Neighbours with the four diagonal pixels added.
NeighboursWithDiagonals(x, y) ==
    << <<x + 1, y>>, <<x - 1, y>>, <<x, y + 1>>, <<x, y - 1>>,
       <<x + 1, y + 1>>, <<x - 1, y - 1>>, <<x + 1, y - 1>>, <<x - 1, y + 1>> >>

\* stack.extend([(x + 1, y), (x - 1, y), (x, y + 1), (x, y - 1)])
Neighbours(x, y) == << <<x + 1, y>>, <<x - 1, y>>, <<x, y + 1>>, <<x, y - 1>> >>

\* ReturnedBox with the inclusive maxima returned as they are.
ReturnedBoxInclusive(x0, y0, x1, y1) == << x0, y0, x1, y1 >>

\* return (minx, miny, maxx + 1, maxy + 1)
ReturnedBox(x0, y0, x1, y1) == << x0, y0, x1 + 1, y1 + 1 >>

\* area = (maxx - minx) * (maxy - miny)
Area(b) == (b[3] - b[1]) * (b[4] - b[2])

\* Keeps with the number of pixels the fill marked in place of the box area.
KeepsByPixelCount(b, threshold) == Cardinality(fill) >= threshold

\* if area >= min_area
Keeps(b, threshold) == Area(b) >= threshold

\* One iteration of "while stack": pop, skip or mark and push the neighbours.
FloodFillStep ==
    /\ pc = "fill"
    /\ stack # << >>
    /\ LET top == stack[Len(stack)]
           x == top[1]
           y == top[2]
           rest == SubSeq(stack, 1, Len(stack) - 1)
       IN  IF Skip(x, y)
           THEN /\ stack' = rest
                /\ UNCHANGED << visited, minx, maxx, miny, maxy, marks, fill >>
           ELSE /\ visited' = visited \cup {<<x, y>>}
                /\ marks' = [marks EXCEPT ![<<x, y>>] = @ + 1]
                /\ fill' = fill \cup {<<x, y>>}
                /\ minx' = Min(minx, x)
                /\ maxx' = Max(maxx, x)
                /\ miny' = Min(miny, y)
                /\ maxy' = Max(maxy, y)
                /\ stack' = rest \o Neighbours(x, y)
    /\ UNCHANGED << pc, mask, min_area, sx, sy, fills, boxes, sorted_boxes,
                    alt_boxes, alt_sorted, frames, sheet, pastes, i, out, err, saved >>

\* The step of "for y in range(h): for x in range(w)" after pixel (x, y).
LastPixel(x, y) == x = Width - 1 /\ y = Height - 1
NextX(x, y) == IF x + 1 < Width THEN x + 1 ELSE 0
NextY(x, y) == IF x + 1 < Width THEN y ELSE y + 1

Advance ==
    IF LastPixel(sx, sy)
    THEN pc' = "sort" /\ UNCHANGED << sx, sy >>
    ELSE pc' = "scan" /\ sx' = NextX(sx, sy) /\ sy' = NextY(sx, sy)

\* flood_fill returns (the stack is empty); find_sprite_boxes filters the box.
FloodFillReturn ==
    /\ pc = "fill"
    /\ stack = << >>
    /\ LET box == ReturnedBox(minx, miny, maxx, maxy)
       IN  boxes' = IF Keeps(box, min_area) THEN Append(boxes, box) ELSE boxes
    /\ fills' = Append(fills, fill)
    /\ fill' = {}
    /\ Advance
    /\ UNCHANGED << mask, min_area, visited, stack, minx, maxx, miny, maxy, marks,
                    sorted_boxes, alt_boxes, alt_sorted, frames, sheet, pastes, i,
                    out, err, saved >>

\* ----------------------------------------------------- find_sprite_boxes

\* if mask[y, x] and not visited[y, x]
IsSeed(x, y) == <<x, y>> \in mask /\ <<x, y>> \notin visited

\* One pixel of the row-major scan: call flood_fill on a seed, else go on.
ScanPixel ==
    /\ pc = "scan"
    /\ IF IsSeed(sx, sy)
       THEN /\ pc' = "fill"
            /\ stack' = << <<sx, sy>> >>
            /\ minx' = sx /\ maxx' = sx
            /\ miny' = sy /\ maxy' = sy
            /\ UNCHANGED << sx, sy >>
       ELSE /\ Advance
            /\ UNCHANGED << stack, minx, maxx, miny, maxy >>
    /\ UNCHANGED << mask, min_area, visited, marks, fill, fills, boxes, sorted_boxes,
                    alt_boxes, alt_sorted, frames, sheet, pastes, i, out, err, saved >>

\* ------------------------------------------------------------ sort_boxes

\* heights = [(b[3] - b[1]) for b in boxes]
Heights(bs) == [k \in 1 .. Len(bs) |-> bs[k][4] - bs[k][2]]

\* s with the number v put before the first element greater than v.
RECURSIVE InsertInt(_, _)
InsertInt(v, s) ==
    IF s = << >> THEN << v >>
    ELSE IF s[1] > v THEN << v >> \o s
    ELSE << s[1] >> \o InsertInt(v, Tail(s))

RECURSIVE SortInts(_)
SortInts(s) ==
    IF s = << >> THEN << >>
    ELSE InsertInt(s[Len(s)], SortInts(SubSeq(s, 1, Len(s) - 1)))

\* Twice np.median(heights), an integer: the middle element of the sorted
\* list, or the mean of the two middle ones.  (The median is a multiple of
\* 0.5, so is the centre (miny + maxy) / 2: both are exact as floats.)
Median2(hs) ==
    LET s == SortInts(hs)
        n == Len(s)
    IN  IF n % 2 = 1 THEN 2 * s[(n + 1) \div 2]
        ELSE s[n \div 2] + s[n \div 2 + 1]

\* Round with a tie rounded up.
RoundHalfUp(p, q) == (2 * p + q) \div (2 * q)

\* round(p / q) for p >= 0 and q > 0: Python rounds a tie to the even
\* neighbour.  (For the small p, q of the model the float quotient is a tie
\* exactly when p / q is.)
Round(p, q) ==
    LET f == p \div q
        r == p % q
    IN  IF 2 * r < q THEN f
        ELSE IF 2 * r > q THEN f + 1
        ELSE IF f % 2 = 0 THEN f ELSE f + 1

\* center_y = (miny + maxy) / 2; row = round(center_y / avg_h), with
\* avg_h2 twice avg_h: center_y / avg_h = (miny + maxy) / avg_h2.
Row(b, avg_h2) == Round(b[2] + b[4], avg_h2)

\* enriched.append((row, minx, b))
Enriched(bs) ==
    LET avg_h2 == Median2(Heights(bs))
    IN  [k \in 1 .. Len(bs) |-> << Row(bs[k], avg_h2), bs[k][1], bs[k] >>]

\* KeyLess on the row alone.
KeyLessRowOnly(a, b) == a[1] < b[1]

\* key=lambda x: (x[0], x[1]), compared as Python compares tuples.
KeyLess(a, b) == a[1] < b[1] \/ (a[1] = b[1] /\ a[2] < b[2])

\* list.sort is stable: e goes before the first element whose key is
\* greater, so after every element of equal key that came before it.
RECURSIVE InsertStable(_, _)
InsertStable(e, s) ==
    IF s = << >> THEN << e >>
    ELSE IF KeyLess(e, s[1]) THEN << e >> \o s
    ELSE << s[1] >> \o InsertStable(e, Tail(s))

RECURSIVE ListSort(_)
ListSort(s) ==
    IF s = << >> THEN << >>
    ELSE InsertStable(s[Len(s)], ListSort(SubSeq(s, 1, Len(s) - 1)))

\* np.median of an empty list is nan (a warning, no exception) and the loop
\* body never runs: sort_boxes([]) is [].
sort_boxes(bs) ==
    IF bs = << >> THEN << >>
    ELSE LET e == ListSort(Enriched(bs))
         IN  [k \in 1 .. Len(e) |-> e[k][3]]

\* The end of find_sprite_boxes: print the count, return sort_boxes(boxes).
FindSpriteBoxesReturn ==
    /\ pc = "sort"
    /\ out' = Append(out, << "Found", Len(boxes) >>)
    /\ sorted_boxes' = sort_boxes(boxes)
    /\ pc' = "extract"
    /\ UNCHANGED << mask, min_area, boxes, alt_boxes, alt_sorted, frames, err, saved >>
    /\ UNCHANGED segVars
    /\ UNCHANGED packVars

\* -------------------------------------------------------- extract_frames

\* image.crop(box): a frame of the box's width and height.
Crop(b) == [width |-> b[3] - b[1], height |-> b[4] - b[2]]

extract_frames(bs) == [k \in 1 .. Len(bs) |-> Crop(bs[k])]

ExtractFrames ==
    /\ pc = "extract"
    /\ frames' = extract_frames(sorted_boxes)
    /\ pc' = "build"
    /\ UNCHANGED << mask, min_area, boxes, sorted_boxes, alt_boxes, alt_sorted,
                    out, err, saved >>
    /\ UNCHANGED segVars
    /\ UNCHANGED packVars

\* ----------------------------------------------------- build_spritesheet

\* max(...) over a non-empty set of numbers.
MaxOf(S) == CHOOSE m \in S : \A v \in S : v <= m

\* max_w = max(f.width for f in frames); max_h likewise.
max_w(fs) == MaxOf({fs[k].width : k \in 1 .. Len(fs)})
max_h(fs) == MaxOf({fs[k].height : k \in 1 .. Len(fs)})

\* math.ceil(math.sqrt(n)): counted up from 0.
RECURSIVE CeilSqrtFrom(_, _)
CeilSqrtFrom(c, n) == IF c * c >= n THEN c ELSE CeilSqrtFrom(c + 1, n)

\* Cols of the single-row layout.
ColsSingleRow(n) == n

\* cols = math.ceil(math.sqrt(n))
Cols(n) == CeilSqrtFrom(0, n)

\* Rows with the quotient rounded down.
RowsFloor(n) == n \div CeilSqrtFrom(0, n)

\* rows = math.ceil(n / cols)
Rows(n) == (n + Cols(n) - 1) \div Cols(n)

\* sheet_w = cols * max_w; sheet_h = rows * max_h
SheetOf(fs) ==
    [w |-> Cols(Len(fs)) * max_w(fs), h |-> Rows(Len(fs)) * max_h(fs)]

\* BuildBegin with an empty list given an empty sheet.
BuildBeginEmptySheet(fs) ==
    IF fs = << >>
    THEN [pc |-> "paste", err |-> "none", sheet |-> [w |-> 0, h |-> 0]]
    ELSE [pc |-> "paste", err |-> "none",
          sheet |-> [w |-> CeilSqrtFrom(0, Len(fs)) * max_w(fs),
                     h |-> ((Len(fs) + CeilSqrtFrom(0, Len(fs)) - 1)
                               \div CeilSqrtFrom(0, Len(fs))) * max_h(fs)]]

\* Up to Image.new: max() of an empty sequence raises ValueError.
BuildBegin(fs) ==
    IF fs = << >>
    THEN [pc |-> "error", err |-> "ValueError", sheet |-> NoSheet]
    ELSE [pc |-> "paste", err |-> "none", sheet |-> SheetOf(fs)]

\* offset_x = (max_w - frame.width) // 2
OffsetX(fs, f) == (max_w(fs) - f.width) \div 2

\* OffsetY of a frame anchored to the top of its cell.
OffsetYTop(fs, f) == 0

\* offset_y = max_h - frame.height
OffsetY(fs, f) == max_h(fs) - f.height

\* The body of "for i, frame in enumerate(frames)" for index k (from 0):
\* the cell origin (x, y), the offsets, and the frame pasted.
PasteOf(fs, k) ==
    LET frame == fs[k + 1]
        col == k % Cols(Len(fs))
        row == k \div Cols(Len(fs))
    IN  [x |-> col * max_w(fs), y |-> row * max_h(fs),
         offset_x |-> OffsetX(fs, frame), offset_y |-> OffsetY(fs, frame),
         width |-> frame.width, height |-> frame.height]

BuildSpritesheet ==
    /\ pc = "build"
    /\ LET r == BuildBegin(frames)
       IN  pc' = r.pc /\ err' = r.err /\ sheet' = r.sheet
    /\ i' = 0
    /\ pastes' = << >>
    /\ UNCHANGED << mask, min_area, boxes, sorted_boxes, alt_boxes, alt_sorted,
                    frames, out, saved >>
    /\ UNCHANGED segVars

PasteFrame ==
    /\ pc = "paste"
    /\ i < Len(frames)
    /\ pastes' = Append(pastes, PasteOf(frames, i))
    /\ i' = i + 1
    /\ UNCHANGED << pc, mask, min_area, boxes, sorted_boxes, alt_boxes, alt_sorted,
                    frames, sheet, out, err, saved >>
    /\ UNCHANGED segVars

BuildSpritesheetReturn ==
    /\ pc = "paste"
    /\ i = Len(frames)
    /\ pc' = "save"
    /\ UNCHANGED << mask, min_area, boxes, sorted_boxes, alt_boxes, alt_sorted,
                    frames, out, err, saved >>
    /\ UNCHANGED segVars
    /\ UNCHANGED packVars

\* ------------------------------------------------------- extract_sprites

\* sheet.save(output_file); print("Spritesheet generated successfully!")
Save ==
    /\ pc = "save"
    /\ saved' = TRUE
    /\ out' = Append(out, << "success" >>)
    /\ pc' = "done"
    /\ UNCHANGED << mask, min_area, boxes, sorted_boxes, alt_boxes, alt_sorted,
                    frames, err >>
    /\ UNCHANGED segVars
    /\ UNCHANGED packVars

\* The state find_sprite_boxes starts in, whatever the mask.
Fresh ==
    /\ visited = {}
    /\ sx = 0 /\ sy = 0
    /\ stack = << >>
    /\ minx = 0 /\ maxx = 0 /\ miny = 0 /\ maxy = 0
    /\ marks = [p \in Pixels |-> 0]
    /\ fill = {}
    /\ fills = << >>
    /\ boxes = << >>
    /\ sorted_boxes = << >>
    /\ alt_boxes = << >>
    /\ alt_sorted = << >>
    /\ frames = << >>
    /\ sheet = NoSheet
    /\ pastes = << >>
    /\ i = 0
    /\ out = << >>
    /\ err = "none"
    /\ saved = FALSE

\* extract_sprites on any Width x Height image; min_area is drawn from
\* MinAreaChoices (extract_sprites itself passes the default).
Init ==
    /\ pc = "scan"
    /\ mask \in SUBSET Pixels
    /\ min_area \in MinAreaChoices
    /\ Fresh

Next ==
    \/ ScanPixel
    \/ FloodFillStep
    \/ FloodFillReturn
    \/ FindSpriteBoxesReturn
    \/ ExtractFrames
    \/ BuildSpritesheet
    \/ PasteFrame
    \/ BuildSpritesheetReturn
    \/ Save

Spec == Init /\ [][Next]_vars

\* ------------------------------------------------- build_spritesheet alone

FrameChoices == [width : FrameWidths, height : FrameHeights]

SeqsUpTo(S, n) == UNION {[1 .. k -> S] : k \in 0 .. n}

\* build_spritesheet(frames) on any list of at most MaxFrames frames.
InitPack ==
    /\ pc = "build"
    /\ mask = {}
    /\ min_area = min_area_default
    /\ visited = {}
    /\ sx = 0 /\ sy = 0
    /\ stack = << >>
    /\ minx = 0 /\ maxx = 0 /\ miny = 0 /\ maxy = 0
    /\ marks = [p \in Pixels |-> 0]
    /\ fill = {}
    /\ fills = << >>
    /\ boxes = << >>
    /\ sorted_boxes = << >>
    /\ alt_boxes = << >>
    /\ alt_sorted = << >>
    /\ frames \in SeqsUpTo(FrameChoices, MaxFrames)
    /\ sheet = NoSheet
    /\ pastes = << >>
    /\ i = 0
    /\ out = << >>
    /\ err = "none"
    /\ saved = FALSE

NextPack ==
    \/ BuildSpritesheet
    \/ PasteFrame
    \/ BuildSpritesheetReturn

SpecPack == InitPack /\ [][NextPack]_vars

\* -------------------------------------------------------- sort_boxes alone

BoxChoices ==
    {b \in BoxXs \X BoxYs \X BoxXs \X BoxYs : b[1] < b[3] /\ b[2] < b[4]}

Distinct(s) == \A j, k \in 1 .. Len(s) : j # k => s[j] # s[k]

\* t is s in another order.
IsPermutation(s, t) ==
    /\ Len(s) = Len(t)
    /\ \A b \in {s[k] : k \in 1 .. Len(s)} \cup {t[k] : k \in 1 .. Len(t)} :
          Cardinality({k \in 1 .. Len(s) : s[k] = b})
              = Cardinality({k \in 1 .. Len(t) : t[k] = b})

\* sort_boxes on a list of distinct boxes, and on the same boxes in any order.
InitSort ==
    /\ pc = "sort_boxes"
    /\ mask = {}
    /\ min_area = min_area_default
    /\ visited = {}
    /\ sx = 0 /\ sy = 0
    /\ stack = << >>
    /\ minx = 0 /\ maxx = 0 /\ miny = 0 /\ maxy = 0
    /\ marks = [p \in Pixels |-> 0]
    /\ fill = {}
    /\ fills = << >>
    /\ boxes \in {s \in SeqsUpTo(BoxChoices, MaxBoxes) : Distinct(s)}
    /\ alt_boxes \in {t \in [1 .. Len(boxes) -> {boxes[k] : k \in 1 .. Len(boxes)}] :
                         IsPermutation(boxes, t)}
    /\ sorted_boxes = << >>
    /\ alt_sorted = << >>
    /\ frames = << >>
    /\ sheet = NoSheet
    /\ pastes = << >>
    /\ i = 0
    /\ out = << >>
    /\ err = "none"
    /\ saved = FALSE

SortBoxes ==
    /\ pc = "sort_boxes"
    /\ sorted_boxes' = sort_boxes(boxes)
    /\ pc' = "sort_boxes_again"
    /\ UNCHANGED << mask, min_area, boxes, alt_boxes, alt_sorted, frames, out, err, saved >>
    /\ UNCHANGED segVars
    /\ UNCHANGED packVars

SortBoxesAgain ==
    /\ pc = "sort_boxes_again"
    /\ alt_sorted' = sort_boxes(alt_boxes)
    /\ pc' = "sorted"
    /\ UNCHANGED << mask, min_area, boxes, sorted_boxes, alt_boxes, frames, out, err, saved >>
    /\ UNCHANGED segVars
    /\ UNCHANGED packVars

NextSort ==
    \/ SortBoxes
    \/ SortBoxesAgain

SpecSort == InitSort /\ [][NextSort]_vars

\* ================================================================ claims

Range(s) == {s[k] : k \in 1 .. Len(s)}

Abs(v) == IF v < 0 THEN -v ELSE v

\* Two pixels that share an edge.
Adjacent4(p, q) == Abs(p[1] - q[1]) + Abs(p[2] - q[2]) = 1

\* Two pixels that share only a corner.
Diagonal(p, q) == Abs(p[1] - q[1]) = 1 /\ Abs(p[2] - q[2]) = 1

\* The opaque pixels joined to S by chains of edge-sharing opaque pixels.
RECURSIVE Joined(_)
Joined(S) ==
    LET T == S \cup {q \in mask : \E p \in S : Adjacent4(p, q)}
    IN  IF T = S THEN S ELSE Joined(T)

\* The 4-connected components of the mask.
Components == {Joined({p}) : p \in mask}

\* The smallest rectangle around a set of pixels, half-open.
BoundingBox(c) ==
    << CHOOSE v \in {p[1] : p \in c} : \A p \in c : v <= p[1],
       CHOOSE v \in {p[2] : p \in c} : \A p \in c : v <= p[2],
       (CHOOSE v \in {p[1] : p \in c} : \A p \in c : v >= p[1]) + 1,
       (CHOOSE v \in {p[2] : p \in c} : \A p \in c : v >= p[2]) + 1 >>

BoxArea(b) == (b[3] - b[1]) * (b[4] - b[2])

\* The boxes of those of the components cs that meet the threshold.
QualifyingBoxes(cs) ==
    {BoundingBox(c) : c \in {d \in cs : BoxArea(BoundingBox(d)) >= min_area}}

\* Pixels p and q are joined by a chain of edge-sharing opaque pixels.
SameComponent(cs, p, q) == \E c \in cs : p \in c /\ q \in c

\* find_sprite_boxes has returned.
Returned == pc \in {"extract", "build", "paste", "save", "done", "error"}

\* The scan and every fill are over.
Segmented == pc \notin {"scan", "fill"}

\* C1: the boxes find_sprite_boxes returns are, as a set and without
\* repeats, the half-open bounding boxes of the 4-connected components of
\* the mask whose box area is at least min_area; every flood_fill call
\* marks exactly one whole component, so pixels that touch only diagonally
\* and are not joined by a chain of edge neighbours never share a fill.
C1_BoxesAreComponentBoxes ==
    Returned =>
        LET cs == Components
            qualifying == QualifyingBoxes(cs)
        IN  /\ Range(sorted_boxes) = qualifying
            /\ Len(sorted_boxes) = Cardinality(qualifying)
            /\ Range(fills) = cs
            /\ Len(fills) = Cardinality(cs)
            /\ \A p, q \in mask :
                  (Diagonal(p, q) /\ ~ SameComponent(cs, p, q))
                      => \A k \in 1 .. Len(fills) : ~ (p \in fills[k] /\ q \in fills[k])

\* Two opaque pixels that touch only diagonally were reported as two boxes.
C1_Witness ==
    /\ Returned
    /\ \E p, q \in mask :
          /\ Diagonal(p, q)
          /\ q \notin Joined({p})
          /\ BoundingBox(Joined({p})) \in Range(sorted_boxes)
          /\ BoundingBox(Joined({q})) \in Range(sorted_boxes)
          /\ BoundingBox(Joined({p})) # BoundingBox(Joined({q}))

\* C2: the filter looks at the box area, not at the number of opaque
\* pixels: a component whose box area is exactly min_area is returned, one
\* whose box area is min_area - 1 is not, and a component with fewer than
\* min_area pixels is returned as soon as its box area reaches min_area.
C2_AreaFilterBoundary ==
    Returned =>
        LET returned == Range(sorted_boxes)
        IN  \A c \in Components :
                LET box == BoundingBox(c)
                IN  /\ BoxArea(box) = min_area => box \in returned
                    /\ BoxArea(box) = min_area - 1 => box \notin returned
                    /\ (Cardinality(c) < min_area /\ BoxArea(box) >= min_area)
                          => box \in returned

\* One component of box area min_area was kept and one of box area
\* min_area - 1 was dropped, in the same run.
C2_Witness ==
    /\ Returned
    /\ \E c, d \in Components :
          /\ BoxArea(BoundingBox(c)) = min_area
          /\ BoundingBox(c) \in Range(sorted_boxes)
          /\ BoxArea(BoundingBox(d)) = min_area - 1
          /\ BoundingBox(d) \notin Range(sorted_boxes)

\* A box with minX < maxX and minY < maxY that lies inside the image.
ValidBox(b) ==
    /\ b[1] < b[3] /\ b[2] < b[4]
    /\ 0 <= b[1] /\ b[3] <= Width
    /\ 0 <= b[2] /\ b[4] <= Height

\* C9: the box flood_fill would return is, at every step of the fill, a
\* non-empty half-open box inside the image, and so is every box kept or
\* returned; the frames are one per box, of the box's width and height.
C9_BoxesValidAndInImage ==
    /\ pc = "fill" => ValidBox(ReturnedBox(minx, miny, maxx, maxy))
    /\ \A b \in Range(boxes) \cup Range(sorted_boxes) : ValidBox(b)
    /\ pc \in {"build", "paste", "save", "done", "error"} =>
          /\ Len(frames) = Len(sorted_boxes)
          /\ \A k \in 1 .. Len(frames) :
                /\ frames[k].width = sorted_boxes[k][3] - sorted_boxes[k][1]
                /\ frames[k].height = sorted_boxes[k][4] - sorted_boxes[k][2]
                /\ frames[k].width >= 1 /\ frames[k].height >= 1

\* A frame was cropped from a box that reaches the right and bottom edges of
\* the image and is more than one pixel wide.
C9_Witness ==
    /\ pc = "done"
    /\ \E k \in 1 .. Len(frames) :
          /\ sorted_boxes[k][3] = Width /\ sorted_boxes[k][4] = Height
          /\ frames[k].width > 1

\* What is left of the segmentation: every step of the scan and of a fill
\* makes it smaller, and it is never negative.
PixelsLeft == (Height - 1 - sy) * Width + (Width - sx)

Remaining ==
    IF Segmented THEN 0
    ELSE 5 * Cardinality(mask \ visited) + Len(stack) + 3 * PixelsLeft
             + (IF pc = "scan" THEN 2 ELSE 0)

\* The pixel on top of flood_fill's stack.
Top == stack[Len(stack)]

C10_State ==
    /\ \A p \in Pixels : marks[p] <= 1
    /\ \A p \in Pixels : marks[p] = 1 <=> p \in visited
    /\ visited \subseteq mask
    /\ Remaining >= 0
    /\ ~ Segmented => ENABLED (ScanPixel \/ FloodFillStep \/ FloodFillReturn)
    /\ \A j, k \in 1 .. Len(fills) : j # k => fills[j] \cap fills[k] = {}
    /\ \A k \in 1 .. Len(fills) : fills[k] \cap fill = {}
    /\ Segmented =>
          /\ visited = mask
          /\ stack = << >>
          /\ \A p \in mask : Cardinality({k \in 1 .. Len(fills) : p \in fills[k]}) = 1

C10_Step ==
    /\ ~ Segmented => Remaining' < Remaining
    /\ (pc = "fill" /\ stack # << >> /\ Top \in visited) =>
          /\ visited' = visited
          /\ marks' = marks
          /\ stack' = SubSeq(stack, 1, Len(stack) - 1)
    /\ visited \subseteq visited'

\* C10: the segmentation terminates (Remaining is a natural number that
\* every step of the scan and of a fill decreases, and a step is possible
\* until the scan has ended); no pixel is marked
\* visited twice, a visited pixel popped again is dropped without being
\* expanded, only opaque pixels are marked, and when the scan ends the
\* visited grid is the mask and every opaque pixel is in exactly one fill.
C10_TerminatesVisitingOnce == [] C10_State /\ [][C10_Step]_vars

\* flood_fill pops a pixel it has already marked.
C10_Witness ==
    /\ pc = "fill"
    /\ stack # << >>
    /\ Top \in visited

\* C6: when find_sprite_boxes returns no box (a transparent image, or every
\* component under min_area) the run ends in build_spritesheet's ValueError:
\* the count 0 was printed, the sheet is never built, pasted to or saved,
\* and the success message is never printed.
C6_EmptySegmentationIsAnError ==
    (Returned /\ sorted_boxes = << >>) =>
        /\ pc \in {"extract", "build", "error"}
        /\ pc = "error" => err = "ValueError"
        /\ pc # "error" => err = "none"
        /\ out = << << "Found", 0 >> >>
        /\ sheet = NoSheet
        /\ pastes = << >>
        /\ ~ saved

\* An image with opaque pixels, all in components under min_area, ended in
\* the error.
C6_Witness ==
    /\ pc = "error"
    /\ err = "ValueError"
    /\ mask # {}
    /\ sorted_boxes = << >>
    /\ ~ saved

\* The largest frame width and height.
WidestFrame == CHOOSE v \in {frames[k].width : k \in 1 .. Len(frames)} :
                   \A k \in 1 .. Len(frames) : frames[k].width <= v
TallestFrame == CHOOSE v \in {frames[k].height : k \in 1 .. Len(frames)} :
                    \A k \in 1 .. Len(frames) : frames[k].height <= v

\* s is in ascending (minX, minY) order.
SortedLeftToRight(s) ==
    \A j, k \in 1 .. Len(s) :
        j < k => (s[j][1] < s[k][1] \/ (s[j][1] = s[k][1] /\ s[j][2] <= s[k][2]))

\* The least c with c * c >= n, and the least r with r * c >= n.
LeastCols(n) == CHOOSE c \in 0 .. n : c * c >= n /\ \A d \in 0 .. n : d * d >= n => c <= d
LeastRows(n) == CHOOSE r \in 0 .. n :
                    /\ r * LeastCols(n) >= n
                    /\ \A d \in 0 .. n : d * LeastCols(n) >= n => r <= d

Built == pc \in {"paste", "save"}

\* C4: for n >= 1 frames the sheet is cols*maxW by rows*maxH with cols the
\* least integer whose square is >= n and rows the least integer with
\* rows*cols >= n; frame i is given the cell (i mod cols, i div cols) with
\* origin (col*maxW, row*maxH); the cells of two frames differ, and every
\* cell has row < rows and lies inside the sheet.  Five 10x10 frames give
\* cols 3, rows 2, a 30x20 sheet, and frame 3 the origin (0, 10).
C4_GridGeometry ==
    Built =>
        LET n == Len(frames)
            cols == LeastCols(n)
            rows == LeastRows(n)
            maxW == WidestFrame
            maxH == TallestFrame
        IN  /\ n >= 1
            /\ sheet = [w |-> cols * maxW, h |-> rows * maxH]
            /\ pc = "save" => Len(pastes) = n
            /\ \A k \in 1 .. Len(pastes) :
                  /\ pastes[k].x = ((k - 1) % cols) * maxW
                  /\ pastes[k].y = ((k - 1) \div cols) * maxH
                  /\ (k - 1) % cols < cols /\ (k - 1) \div cols < rows
                  /\ pastes[k].x + maxW <= sheet.w
                  /\ pastes[k].y + maxH <= sheet.h
            /\ \A j, k \in 1 .. Len(pastes) :
                  j # k => << pastes[j].x, pastes[j].y >> # << pastes[k].x, pastes[k].y >>
            /\ (n = 5 /\ \A k \in 1 .. n : frames[k] = [width |-> 10, height |-> 10]) =>
                  /\ cols = 3 /\ rows = 2
                  /\ sheet = [w |-> 30, h |-> 20]
                  /\ Len(pastes) >= 4 => (pastes[4].x = 0 /\ pastes[4].y = 10)

\* Five 10x10 frames were packed: a 30x20 sheet, frame 3 at (0, 10).
C4_Witness ==
    /\ pc = "save"
    /\ Len(frames) = 5
    /\ \A k \in 1 .. 5 : frames[k] = [width |-> 10, height |-> 10]
    /\ sheet = [w |-> 30, h |-> 20]
    /\ pastes[4].x = 0 /\ pastes[4].y = 10

\* The rectangle a paste covers: left, top, right, bottom (half-open).
Left(p) == p.x + p.offset_x
TopEdge(p) == p.y + p.offset_y
Right(p) == p.x + p.offset_x + p.width
Bottom(p) == p.y + p.offset_y + p.height

Overlap(p, q) ==
    /\ Left(p) < Right(q) /\ Left(q) < Right(p)
    /\ TopEdge(p) < Bottom(q) /\ TopEdge(q) < Bottom(p)

\* C5: every paste has offsetX = floor((maxW - frameW) / 2) >= 0 and
\* offsetY = maxH - frameH >= 0; the pasted rectangle lies inside the
\* frame's cell, its bottom edge is the cell's bottom edge (so the rows of
\* the cell left free are its top maxH - frameH rows), and no two pasted
\* rectangles overlap.
C5_BottomAnchoredInCell ==
    Built =>
        LET maxW == WidestFrame
            maxH == TallestFrame
        IN  /\ \A k \in 1 .. Len(pastes) :
                  LET p == pastes[k]
                  IN  /\ p.width = frames[k].width /\ p.height = frames[k].height
                      /\ p.offset_x >= 0 /\ p.offset_y >= 0
                      /\ 2 * p.offset_x <= maxW - p.width
                      /\ maxW - p.width <= 2 * p.offset_x + 1
                      /\ p.offset_y = maxH - p.height
                      /\ p.x <= Left(p) /\ Right(p) <= p.x + maxW
                      /\ p.y <= TopEdge(p)
                      /\ Bottom(p) = p.y + maxH
            /\ \A j, k \in 1 .. Len(pastes) : j # k => ~ Overlap(pastes[j], pastes[k])

\* A frame shorter than maxH, with an odd horizontal slack, was pasted in
\* the second row of the grid, and all frames are pasted.
C5_Witness ==
    /\ pc = "save"
    /\ \E k \in 1 .. Len(pastes) :
          /\ pastes[k].height < TallestFrame
          /\ (WidestFrame - pastes[k].width) % 2 = 1
          /\ pastes[k].offset_y > 0
          /\ pastes[k].y > 0
          /\ TopEdge(pastes[k]) > pastes[k].y

\* --------------------------------------------------- claims on sort_boxes

\* v is the k-th smallest of the numbers of s, counted with repeats.
IsKthSmallest(v, s, k) ==
    /\ v \in Range(s)
    /\ Cardinality({j \in 1 .. Len(s) : s[j] < v}) < k
    /\ k <= Cardinality({j \in 1 .. Len(s) : s[j] <= v})

KthSmallest(s, k) == CHOOSE v \in Range(s) : IsKthSmallest(v, s, k)

\* Twice the median of the box heights of s.
TwiceMedianHeight(s) ==
    LET hs == [k \in 1 .. Len(s) |-> s[k][4] - s[k][2]]
        n == Len(hs)
    IN  IF n % 2 = 1 THEN 2 * KthSmallest(hs, (n + 1) \div 2)
        ELSE KthSmallest(hs, n \div 2) + KthSmallest(hs, n \div 2 + 1)

\* r is round(c2 / m2) for c2 = minY + maxY, twice the centre of a box, and
\* m2 twice avgH: an integer at most 1/2 away from the quotient, the even
\* one of the two when the quotient is halfway between them.
IsRound(r, c2, m2) ==
    \/ Abs(2 * c2 - 2 * r * m2) < m2
    \/ (Abs(2 * c2 - 2 * r * m2) = m2 /\ r % 2 = 0)

\* The quotient c2 / m2 is halfway between two integers.
IsHalfway(c2, m2) == \E r \in 0 .. c2 : Abs(2 * c2 - 2 * r * m2) = m2

\* The row index of each box of t, with avgH the median height of the boxes s.
RowIndexes(t, s) ==
    LET m2 == TwiceMedianHeight(s)
    IN  [k \in 1 .. Len(t) |->
            CHOOSE r \in 0 .. (t[k][2] + t[k][4]) : IsRound(r, t[k][2] + t[k][4], m2)]

\* C7: sort_boxes returns its boxes in another order, sorted by row index
\* round(((minY + maxY) / 2) / avgH) ascending, avgH the median of the box
\* heights, and by minX ascending among boxes of one row index.
C7_RowBucketedOrder ==
    pc \in {"sort_boxes_again", "sorted"} =>
        LET m2 == TwiceMedianHeight(boxes)
            row == RowIndexes(sorted_boxes, boxes)
        IN  /\ IsPermutation(boxes, sorted_boxes)
            /\ \A k \in 1 .. Len(sorted_boxes) :
                  IsRound(row[k], sorted_boxes[k][2] + sorted_boxes[k][4], m2)
            /\ \A j, k \in 1 .. Len(sorted_boxes) :
                  j < k =>
                      \/ row[j] < row[k]
                      \/ (row[j] = row[k] /\ sorted_boxes[j][1] <= sorted_boxes[k][1])

\* Three boxes were reordered; two share a row index, and one quotient lay
\* halfway between two integers.
C7_Witness ==
    /\ pc = "sorted"
    /\ Len(boxes) = 3
    /\ sorted_boxes # boxes
    /\ LET row == RowIndexes(boxes, boxes)
       IN  \E j, k \in 1 .. 3 :
              j # k /\ row[j] = row[k] /\ boxes[j][1] # boxes[k][1]
    /\ \E k \in 1 .. 3 :
          IsHalfway(boxes[k][2] + boxes[k][4], TwiceMedianHeight(boxes))

\* C3 as stated: sort_boxes returns the same sequence for the same distinct
\* boxes given in two orders.
C3_OrderIndependent ==
    pc = "sorted" => sorted_boxes = alt_sorted


\* The sort keys of the boxes of t, (row index, minX), with avgH the median
\* height of the boxes s.
SortKeys(t, s) ==
    LET row == RowIndexes(t, s)
    IN  [k \in 1 .. Len(t) |-> << row[k], t[k][1] >>]

\* The place of box b in the list s of distinct boxes.
PlaceIn(b, s) == CHOOSE k \in 1 .. Len(s) : s[k] = b

\* The boxes of s that share their sort key keep, in t, the order they have
\* in s.
TiesKeepOrder(s, t) ==
    LET key == SortKeys(s, s)
    IN  \A j, k \in 1 .. Len(s) :
            (j < k /\ key[j] = key[k]) => PlaceIn(s[j], t) < PlaceIn(s[k], t)

\* No two boxes of s have the same row index and the same minX.
KeysDiffer(s) ==
    LET key == SortKeys(s, s)
    IN  \A j, k \in 1 .. Len(s) : j # k => key[j] # key[k]

\* C3, amended: for the same distinct boxes given in two orders the two
\* results of sort_boxes are reorderings of the input with the same
\* sequence of (row index, minX) keys; they are the same sequence when no
\* two boxes share both row index and minX, and boxes that share both keep
\* the order they were given in.
C3_SameUpToTies ==
    pc = "sorted" =>
        /\ IsPermutation(sorted_boxes, alt_sorted)
        /\ IsPermutation(boxes, sorted_boxes)
        /\ SortKeys(sorted_boxes, boxes) = SortKeys(alt_sorted, boxes)
        /\ KeysDiffer(boxes) => sorted_boxes = alt_sorted
        /\ TiesKeepOrder(boxes, sorted_boxes)
        /\ TiesKeepOrder(alt_boxes, alt_sorted)

\* Three boxes in two orders, two of them with the same row index and minX:
\* the two results differ.
C3_Witness ==
    /\ pc = "sorted"
    /\ Len(boxes) = 3
    /\ ~ KeysDiffer(boxes)
    /\ sorted_boxes # alt_sorted
    /\ sorted_boxes # boxes

====
